---- MODULE Spec2Model ----
(***************************************************************************)
(* A model of the retrieval pipelines of the repository:                   *)
(*   - GitHubChatRAG (ml/github_integration/safety.py): preprocess_file,   *)
(*     retrieve_relevant_context, refine_answer_with_grok, driven by the   *)
(*     chat_single_file view (specification Spec; ReposSpec for requests   *)
(*     about several repositories);                                        *)
(*   - AdvancedSearcher._hybrid_search (ml/graph/github/search.py)         *)
(*     (specification SearchSpec);                                         *)
(*   - GrokPineconeRAG.process_urls (ml/wikipedia_scrape/services.py,      *)
(*     ml/scrape.py) (specification WikiSpec);                             *)
(*   - EnhancedEmbeddings (ml/graph/github/embeddings.py)                  *)
(*     (specification EmbedSpec);                                          *)
(*   - RepoRAG._split_text_into_chunks (ml/github_integration/views.py)    *)
(*     and GrokPineconeRAG.chunk_text (specification ChunkSpec; ChunkAnySpec *)
(*     for overlap >= chunk_size);                                         *)
(*   - RepoRAG with index_entire_repo and chat_entire_repo                 *)
(*     (ml/github_integration/views.py) (specification RepoSpec);          *)
(*   - GitHubRAG._build_knowledge_graph (ml/graph/github_rag.py) over      *)
(*     Neo4jManager.create_node (specification KgSpec).                    *)
(* Texts are sequences of one-character strings.  Python's 0-based list    *)
(* positions are kept in the ids; TLA+ sequences are 1-based.              *)
(***************************************************************************)
EXTENDS Integers, Sequences, FiniteSets, TLC

VARIABLES
    \* GitHubChatRAG / chat_single_file
    pinecone_index,   \* GitHubChatRAG.pinecone_index: the stored vectors, in write order
    neo4j_graph,      \* the Neo4j store: File nodes, Chunk nodes, CONTAINS relationships
    request,          \* the chat_single_file request being served and its locals
    served,           \* the number of chat_single_file requests received so far
    written_by,       \* history: per chunk id, the repository of the request that wrote it last
    \* AdvancedSearcher._hybrid_search
    search,           \* the three strategies' result lists and the merged result
    \* GrokPineconeRAG.process_urls
    wiki_index,       \* the "wikipedia-knowledge-base" index, in write order
    wiki_call,        \* the last process_urls call: its urls and what it returned
    uuids,            \* the number of uuid4 values drawn so far
    \* EnhancedEmbeddings
    current_model,    \* EnhancedEmbeddings.current_model
    embed,            \* the batch_embed call in progress and its locals
    \* RepoRAG._split_text_into_chunks
    chunker,          \* the call's arguments, its locals `start` and `chunks`
    \* GrokPineconeRAG.chunk_text
    words_call,       \* the call's arguments and what it returned or raised
    \* RepoRAG: index_entire_repo, chat_entire_repo
    repo_indices,     \* the files under repo_indices/: by path, a saved index
    repo_call,        \* the last request: its arguments and its response
    repo_served,      \* the number of RepoRAG requests received so far
    \* GitHubRAG._build_knowledge_graph over Neo4jManager
    kg_nodes,         \* the nodes of the Neo4j database, in creation order
    kg_call,          \* the last _build_knowledge_graph call and how it ended
    \* two index_entire_repo requests for one (owner, repo, branch), step by step
    index_files,      \* repo_index.faiss and repo_index_metadata.json of that triple
    index_runs,       \* per request: its position and its RepoRAG instance
    \* two threads calling embed_documents on one EnhancedEmbeddings instance
    embed_calls,      \* per thread: its position and its locals
    \* RateLimitMiddleware
    rate_requests,    \* self.requests: per client IP, its timestamps ((): no key)
    rate_clock,       \* time.time()
    rate_call,        \* the last request dispatched and its status
    rate_made         \* history: per client IP, the times of all its requests

chat_vars == <<pinecone_index, neo4j_graph, request, served, written_by>>
search_vars == <<search>>
wiki_vars == <<wiki_index, wiki_call, uuids>>
embed_vars == <<current_model, embed>>
chunk_vars == <<chunker, words_call>>
repo_vars == <<repo_indices, repo_call, repo_served>>
kg_vars == <<kg_nodes, kg_call>>
race_vars == <<index_files, index_runs>>
limit_vars == <<rate_requests, rate_clock, rate_call, rate_made>>
rest_vars == <<race_vars, embed_calls, limit_vars>>

vars == <<chat_vars, search_vars, wiki_vars, embed_vars, chunk_vars, repo_vars, kg_vars, rest_vars>>
main_vars == <<chat_vars, search_vars, wiki_vars, embed_vars, chunk_vars, repo_vars, kg_vars>>

(***************************************************************************)
(* General helpers.                                                        *)
(***************************************************************************)
Min(a, b) == IF a < b THEN a ELSE b

\* Python's seq[:n]
Take(s, n) == SubSeq(s, 1, Min(n, Len(s)))

\* Python's `q in s` for strings, Cypher's `s CONTAINS q`
StrContains(s, q) ==
    \E i \in 1..(Len(s) - Len(q) + 1) : SubSeq(s, i, i + Len(q) - 1) = q

\* Python's `x in list`
InList(x, s) == \E k \in 1..Len(s) : s[k] = x

RECURSIVE SumLen(_)
SumLen(texts) ==
    IF texts = <<>> THEN 0 ELSE Len(Head(texts)) + SumLen(Tail(texts))

\* The injective sequences of length n over 1..m: the orders in which a store
\* may return n of its m entries.
Picks(m, n) ==
    {p \in [1..n -> 1..m] : \A i, j \in 1..n : i # j => p[i] # p[j]}

(***************************************************************************)
(* GitHubChatRAG: inputs.                                                  *)
(***************************************************************************)
Files == {"f1", "f2"}

TextA1 == <<"b", "b", "b">>
TextA2 == <<"a", "b">>
TextB1 == <<"a">>

\* File contents, as texts.
ContentEmpty == <<>>
ContentA == <<"b", "b", "b", "a", "b">>
ContentB == <<"a">>
ContentC == <<"a", "b", "a", "b">>
ContentW == <<" ">>
ContentX == <<"a", "a">>

Contents == {ContentEmpty, ContentA, ContentB, ContentC, ContentW, ContentX}

\* the request's message: it occurs in some chunks and not in others
Queries == {<<"a">>}

\* RecursiveCharacterTextSplitter(chunk_size=500, chunk_overlap=50).split_text:
\* a deterministic function of the content, given here for the contents above.
\* ContentA has two chunks, ContentB one, ContentC repeats a chunk text, and a
\* whitespace-only content has no chunk.
split_text(file_content) ==
    CASE file_content = ContentA -> <<TextA1, TextA2>>
      [] file_content = ContentB -> <<TextB1>>
      [] file_content = ContentC -> <<TextA2, TextA2>>
      [] OTHER -> <<>>

\* the contents on which split_text raises (the splitter is a pure function, so
\* whether it raises depends on the content alone)
SplitRaises(file_content) == file_content = ContentX

\* the number of requests a behaviour of the model serves
MaxRequests == 2

\* `vectors[:100]`, `chunks[:100]`
UpsertLimit == 100

\* `top_k=5`, the default chat_single_file uses
DefaultTopK == 5

(***************************************************************************)
(* GitHubChatRAG.preprocess_file and its stores.                           *)
(***************************************************************************)
\* f"{selected_file}_{i}"
VectorId(selected_file, i) == selected_file \o "_" \o ToString(i)

\* the `vectors` list comprehension: one vector per chunk, i counted from 0
Vectors(chunks, selected_file) ==
    [k \in 1..Len(chunks) |->
        [id |-> VectorId(selected_file, k - 1),
         text |-> chunks[k],
         file |-> selected_file]]

\* Pinecone's upsert of one vector: the same id overwrites, a new id is added
UpsertOne(index, v) ==
    IF \E k \in 1..Len(index) : index[k].id = v.id
    THEN [k \in 1..Len(index) |-> IF index[k].id = v.id THEN v ELSE index[k]]
    ELSE Append(index, v)

RECURSIVE PineconeUpsert(_, _)
\* pinecone_index.upsert(vectors)
PineconeUpsert(index, vectors) ==
    IF vectors = <<>> THEN index
    ELSE PineconeUpsert(UpsertOne(index, Head(vectors)), Tail(vectors))

\* MergeFile as a CREATE: a node is added whether or not one exists
CreateFile(files, file_name) == Append(files, file_name)

\* MERGE (f:File {name: $file})
MergeFile(files, file_name) ==
    IF InList(file_name, files) THEN files ELSE Append(files, file_name)

\* MERGE (c:Chunk {id: $chunk_id}) SET c.content = $content
MergeChunk(chunks, chunk_id, content) ==
    IF \E k \in 1..Len(chunks) : chunks[k].id = chunk_id
    THEN [k \in 1..Len(chunks) |->
            IF chunks[k].id = chunk_id
            THEN [id |-> chunk_id, content |-> content] ELSE chunks[k]]
    ELSE Append(chunks, [id |-> chunk_id, content |-> content])

\* MERGE (f)-[:CONTAINS]->(c)
MergeContains(rels, file_name, chunk_id) ==
    IF InList(<<file_name, chunk_id>>, rels) THEN rels
    ELSE Append(rels, <<file_name, chunk_id>>)

\* one execute_write transaction of _create_file_chunk_relationship
create_file_chunk_relationship(graph, file_name, chunk_id, content) ==
    [files    |-> MergeFile(graph.files, file_name),
     chunks   |-> MergeChunk(graph.chunks, chunk_id, content),
     contains |-> MergeContains(graph.contains, file_name, chunk_id)]

RECURSIVE WriteChunks(_, _, _, _, _)
\* the `for i, chunk in enumerate(chunks[:100])` loop; a transaction whose
\* position is in neo4j_errs raises and is skipped by the except clause
WriteChunks(graph, selected_file, chunks, k, neo4j_errs) ==
    IF k > Len(chunks) THEN graph
    ELSE WriteChunks(
            IF k \in neo4j_errs THEN graph
            ELSE create_file_chunk_relationship(
                    graph, selected_file, VectorId(selected_file, k - 1), chunks[k]),
            selected_file, chunks, k + 1, neo4j_errs)

\* the chunks preprocess_file works on: split_text, or the whole content as a
\* single chunk when the splitter raises
ChunksOf(file_content) ==
    IF SplitRaises(file_content) THEN <<file_content>> ELSE split_text(file_content)

\* preprocess_file with the embeddings computed after the writes: an error of
\* encode comes too late to keep the stores as they were
PreprocessWriteFirst(index, graph, file_content, selected_file, embed_err, upsert_err, neo4j_errs) ==
    LET chunks == ChunksOf(file_content) IN
    IF file_content = <<>> \/ chunks = <<>>
    THEN [index |-> index, graph |-> graph, ret |-> <<>>]
    ELSE [index |-> IF upsert_err THEN index
                    ELSE PineconeUpsert(index,
                            Take(Vectors(chunks, selected_file), UpsertLimit)),
          graph |-> WriteChunks(graph, selected_file,
                                Take(chunks, UpsertLimit), 1, neo4j_errs),
          ret   |-> IF embed_err THEN <<>> ELSE chunks]

\* preprocess_file: the stores it leaves and the list it returns
preprocess_file(index, graph, file_content, selected_file, embed_err, upsert_err, neo4j_errs) ==
    LET chunks == ChunksOf(file_content) IN
    IF file_content = <<>> \/ chunks = <<>> \/ embed_err
    THEN [index |-> index, graph |-> graph, ret |-> <<>>]
    ELSE [index |-> IF upsert_err THEN index
                    ELSE PineconeUpsert(index,
                            Take(Vectors(chunks, selected_file), UpsertLimit)),
          graph |-> WriteChunks(graph, selected_file,
                                Take(chunks, UpsertLimit), 1, neo4j_errs),
          ret   |-> chunks]

\* every chunk of the content is stored for the file under its id, in both stores
Indexed(index, graph, file_content, selected_file) ==
    LET chunks == Take(ChunksOf(file_content), UpsertLimit) IN
    /\ file_content # <<>>
    /\ chunks # <<>>
    /\ \A k \in 1..Len(chunks) :
        /\ InList(Vectors(chunks, selected_file)[k], index)
        /\ InList(selected_file, graph.files)
        /\ InList([id |-> VectorId(selected_file, k - 1), content |-> chunks[k]],
                  graph.chunks)
        /\ InList(<<selected_file, VectorId(selected_file, k - 1)>>, graph.contains)

(***************************************************************************)
(* GitHubChatRAG.retrieve_relevant_context.                                *)
(***************************************************************************)
\* the rows of MATCH (f:File)-[:CONTAINS]->(c:Chunk)
\*             WHERE c.content CONTAINS $search_query  (before LIMIT)
MatchRows(graph, search_query) ==
    LET NodeOf(chunk_id) ==
            CHOOSE c \in {graph.chunks[k] : k \in 1..Len(graph.chunks)} :
                c.id = chunk_id
        hit(r) == /\ InList(r[1], graph.files)
                  /\ \E k \in 1..Len(graph.chunks) :
                        /\ graph.chunks[k].id = r[2]
                        /\ StrContains(graph.chunks[k].content, search_query)
        rels == SelectSeq(graph.contains, hit)
    IN  [k \in 1..Len(rels) |->
            [name |-> rels[k][1], content |-> NodeOf(rels[k][2]).content]]

\* "Combine and deduplicate contexts" ... `return contexts[:top_k]`
MergeContexts(pinecone_contexts, neo4j_additional_contexts, top_k) ==
    LET fresh(ctx) == ~InList(ctx, pinecone_contexts)
    IN  Take(pinecone_contexts \o SelectSeq(neo4j_additional_contexts, fresh),
             top_k)

\* s reordered and cut by the pick p
Picked(s, p) == [i \in 1..Len(p) |-> s[p[i]]]

TextsOf(matches) == [i \in 1..Len(matches) |-> matches[i].text]
RowContents(rows) == [i \in 1..Len(rows) |-> rows[i].content]

(***************************************************************************)
(* GitHubChatRAG.refine_answer_with_grok.                                  *)
(***************************************************************************)
RECURSIVE JoinLines(_)
\* chr(10).join(contexts)
JoinLines(texts) ==
    IF texts = <<>> THEN <<>>
    ELSE IF Len(texts) = 1 THEN texts[1]
    ELSE texts[1] \o <<"\n">> \o JoinLines(Tail(texts))

\* what the chat-completion call can do
ApiOutcomes ==
    {"ok", "status_error", "no_choices", "request_exception", "bad_json", "other"}

\* the string refine_answer_with_grok returns
refine_answer_with_grok(outcome) ==
    CASE outcome = "ok" -> "choices[0].message.content"
      [] outcome = "status_error" -> "API Error: <status> - <text>"
      [] outcome = "no_choices" -> "Unable to process the API response"
      [] outcome = "request_exception" -> "Request Error: <err>"
      [] outcome = "bad_json" -> "JSON Parsing Error: <err>"
      [] OTHER -> "Unexpected Error in answer refinement: <err>"

(***************************************************************************)
(* The chat_single_file view: preprocess, retrieve, refine, respond.       *)
(***************************************************************************)
\* the keys of the JsonResponse of a served request
AnswerKeys == {"response", "file", "contexts"}

\* `owner`/`repo` of the request body: two repositories
ChatRepos == {"o/A", "o/B"}

\* the ids preprocess_file can write
ChunkIds ==
    {VectorId(f, i - 1) : f \in Files,
                          i \in 1..2}

NoRequest ==
    [pc |-> "idle", repo |-> "", file |-> "", content |-> <<>>, message |-> <<>>,
     processed_chunks |-> <<>>, contexts |-> <<>>, prompt_contexts |-> <<>>,
     response |-> "", status |-> 0, keys |-> {},
     \* history: the Pinecone query raised; the texts the Neo4j query returned
     search_failed |-> FALSE, graph_contexts |-> <<>>,
     \* history: the stores held the content before the call; a store write failed
     was_indexed |-> FALSE, write_errors |-> FALSE,
     \* history: embeddings_model.encode raised in preprocess_file; the calls
     \* the view made, in order; the requests sent to the chat-completion API
     embed_failed |-> FALSE, stages |-> <<>>, posts |-> 0]

ChatInit ==
    /\ pinecone_index = <<>>
    /\ neo4j_graph = [files |-> <<>>, chunks |-> <<>>, contains |-> <<>>]
    /\ request = NoRequest
    /\ served = 0
    /\ written_by = [id \in ChunkIds |-> ""]

\* AfterPreprocess without the early return
AlwaysRetrieve(processed_chunks) == "retrieve"

\* `if not processed_chunks: return JsonResponse(...)`: where the view goes on
AfterPreprocess(processed_chunks) ==
    IF processed_chunks = <<>> THEN "done" ELSE "retrieve"

\* requests_post sending again after an exception of the first request
PostAgainOnException(sent, outcome) ==
    IF outcome = "request_exception" THEN sent + 2 ELSE sent + 1

\* the one `requests.post` of a call, whatever its outcome: the requests sent
requests_post(sent, outcome) == sent + 1

\* a request arrives and preprocess_file runs; with no processed chunk the view
\* answers "Could not process the file content."
PreprocessEffect(repo, selected_file, file_content, message, embed_err, upsert_err, neo4j_errs) ==
    LET r == preprocess_file(pinecone_index, neo4j_graph, file_content,
                             selected_file, embed_err, upsert_err, neo4j_errs)
        written == {VectorId(selected_file, i - 1) : i \in
                      {k \in 1..Len(r.ret) : ~upsert_err \/ k \notin neo4j_errs}}
    IN  /\ pinecone_index' = r.index
        /\ neo4j_graph' = r.graph
        /\ written_by' = [id \in ChunkIds |->
                            IF id \in written THEN repo ELSE written_by[id]]
        /\ request' =
             [NoRequest EXCEPT
                !.pc = AfterPreprocess(r.ret),
                !.repo = repo,
                !.file = selected_file,
                !.content = file_content,
                !.message = message,
                !.processed_chunks = r.ret,
                !.response = IF r.ret = <<>>
                             THEN "Could not process the file content."
                             ELSE "",
                !.status = IF r.ret = <<>> THEN 200 ELSE 0,
                !.keys = IF r.ret = <<>> THEN AnswerKeys ELSE {},
                !.was_indexed = Indexed(pinecone_index, neo4j_graph,
                                        file_content, selected_file),
                !.write_errors = r.ret # <<>> /\ (upsert_err \/ neo4j_errs # {}),
                !.embed_failed = file_content # <<>> /\ ChunksOf(file_content) # <<>>
                                 /\ embed_err,
                !.stages = <<"preprocess_file">>]
        /\ UNCHANGED <<search_vars, wiki_vars, embed_vars, chunk_vars, repo_vars, kg_vars, rest_vars>>

\* the requests of one repository
ChatPreprocess ==
    /\ request.pc = "idle"
    /\ served < MaxRequests
    /\ served' = served + 1
    /\ \E selected_file \in Files, file_content \in Contents, message \in Queries,
          embed_err \in BOOLEAN, upsert_err \in BOOLEAN :
        \E neo4j_errs \in SUBSET (1..Len(ChunksOf(file_content))) :
            PreprocessEffect("o/A", selected_file, file_content, message,
                             embed_err, upsert_err, neo4j_errs)

\* the requests of several repositories, for files the splitter cuts in chunks
ChatPreprocessRepos ==
    /\ request.pc = "idle"
    /\ served < MaxRequests
    /\ served' = served + 1
    /\ \E repo \in ChatRepos, selected_file \in Files,
          file_content \in {ContentA, ContentB}, message \in Queries,
          embed_err \in BOOLEAN, upsert_err \in BOOLEAN :
        \E neo4j_errs \in SUBSET (1..Len(ChunksOf(file_content))) :
            PreprocessEffect(repo, selected_file, file_content, message,
                             embed_err, upsert_err, neo4j_errs)

\* retrieve_relevant_context(message); an error of the query embedding is not
\* caught there and ends the request in the view's except clause (status 400)
ChatRetrieve ==
    /\ request.pc = "retrieve"
    /\ \E query_embed_err \in BOOLEAN, search_err \in BOOLEAN, neo4j_err \in BOOLEAN :
        LET rows == MatchRows(neo4j_graph, request.message)
            n == IF search_err THEN 0 ELSE Min(DefaultTopK, Len(pinecone_index))
            m == IF neo4j_err THEN 0 ELSE Min(DefaultTopK, Len(rows))
        IN  \E p \in Picks(Len(pinecone_index), n), q \in Picks(Len(rows), m) :
            /\ request' =
                 IF query_embed_err
                 THEN [request EXCEPT !.pc = "done", !.status = 400,
                                      !.response = "error", !.keys = {"error"},
                                      !.stages = Append(@, "retrieve_relevant_context")]
                 ELSE [request EXCEPT
                         !.pc = "refine",
                         !.stages = Append(@, "retrieve_relevant_context"),
                         !.search_failed = search_err,
                         !.graph_contexts = RowContents(Picked(rows, q)),
                         !.contexts =
                            MergeContexts(TextsOf(Picked(pinecone_index, p)),
                                          RowContents(Picked(rows, q)),
                                          DefaultTopK)]
    /\ UNCHANGED <<pinecone_index, neo4j_graph, served, written_by>>
    /\ UNCHANGED <<search_vars, wiki_vars, embed_vars, chunk_vars, repo_vars, kg_vars, rest_vars>>

\* refine_answer_with_grok(message, relevant_contexts) and the JsonResponse
ChatRefine ==
    /\ request.pc = "refine"
    /\ \E outcome \in ApiOutcomes :
        request' = [request EXCEPT
                      !.pc = "done",
                      !.stages = Append(@, "refine_answer_with_grok"),
                      !.posts = requests_post(@, outcome),
                      !.prompt_contexts = JoinLines(request.contexts),
                      !.response = refine_answer_with_grok(outcome),
                      !.status = 200,
                      !.keys = AnswerKeys]
    /\ UNCHANGED <<pinecone_index, neo4j_graph, served, written_by>>
    /\ UNCHANGED <<search_vars, wiki_vars, embed_vars, chunk_vars, repo_vars, kg_vars, rest_vars>>

\* the JsonResponse has been returned; the view is ready for the next request
ChatRespond ==
    /\ request.pc = "done"
    /\ request' = NoRequest
    /\ UNCHANGED <<pinecone_index, neo4j_graph, served, written_by>>
    /\ UNCHANGED <<search_vars, wiki_vars, embed_vars, chunk_vars, repo_vars, kg_vars, rest_vars>>

(***************************************************************************)
(* AdvancedSearcher._hybrid_search.  Scores are in tenths.                 *)
(***************************************************************************)
\* `if similarity > 0.5`
SemanticThreshold == 5
\* `if overlap > 0.3`
FuzzyThreshold == 3
\* `score=1.0` of a regex match
RegexScore == 10

\* the longest result list of one strategy
MaxResults == 2

SearchContents == {"x", "y"}
SearchScores == {4, 6, 10}

SeqsUpTo(S, n) == UNION {[1..k -> S] : k \in 0..n}

\* SearchResult(content, score, location, type); the location is the result's
\* place in its strategy's list
Located(list, type) ==
    [k \in 1..Len(list) |->
        [content |-> list[k][1], score |-> list[k][2], location |-> k,
         type |-> type]]

SortedDesc(list) == \A k \in 1..(Len(list) - 1) : list[k].score >= list[k + 1].score
OnePerContent(list) ==
    \A i, j \in 1..Len(list) : list[i].content = list[j].content => i = j

\* what _semantic_search and _fuzzy_search can return: the index holds one
\* document per content, each list passes its threshold and is sorted by score
ThresholdLists(type, threshold) ==
    {l \in {Located(raw, type) :
                raw \in SeqsUpTo(SearchContents \X SearchScores, MaxResults)} :
        /\ \A k \in 1..Len(l) : l[k].score > threshold
        /\ SortedDesc(l)
        /\ OnePerContent(l)}

\* what _regex_search can return: any matches, each with score 1.0, unsorted
RegexLists ==
    {Located(raw, "regex") :
        raw \in SeqsUpTo(SearchContents \X {RegexScore}, MaxResults)}

\* the dict entry of the key, when there is one
HasKey(results, key) == \E k \in 1..Len(results) : results[k].content = key
EntryOf(results, key) ==
    results[CHOOSE k \in 1..Len(results) : results[k].content = key]

\* KeepBest with `>=` for `>`: on equal scores the later result replaces the kept
KeepAlsoOnTie(results, result) ==
    IF ~HasKey(results, result.content) THEN Append(results, result)
    ELSE IF result.score >= EntryOf(results, result.content).score
         THEN [k \in 1..Len(results) |->
                 IF results[k].content = result.content THEN result ELSE results[k]]
         ELSE results

\* `if key not in results or result.score > results[key].score:
\*      results[key] = result`   (a dict keeps a key's first position)
KeepBest(results, result) ==
    IF ~HasKey(results, result.content) THEN Append(results, result)
    ELSE IF result.score > EntryOf(results, result.content).score
         THEN [k \in 1..Len(results) |->
                 IF results[k].content = result.content THEN result ELSE results[k]]
         ELSE results

RECURSIVE Combine(_, _)
\* the loop over semantic_results + fuzzy_results + regex_results
Combine(results, rest) ==
    IF rest = <<>> THEN results
    ELSE Combine(KeepBest(results, Head(rest)), Tail(rest))

RECURSIVE SortByScoreDesc(_)
\* sorted(values, key=score, reverse=True): stable, equal scores keep their order
SortByScoreDesc(list) ==
    IF list = <<>> THEN <<>>
    ELSE LET front == SortByScoreDesc(SubSeq(list, 1, Len(list) - 1))
             x == list[Len(list)]
             k == Cardinality({i \in 1..Len(front) : front[i].score >= x.score})
         IN  SubSeq(front, 1, k) \o <<x>> \o SubSeq(front, k + 1, Len(front))

hybrid_search(semantic_results, fuzzy_results, regex_results) ==
    SortByScoreDesc(
        Combine(<<>>, semantic_results \o fuzzy_results \o regex_results))

SearchIdle ==
    [pc |-> "idle", semantic |-> <<>>, fuzzy |-> <<>>, regex |-> <<>>,
     results |-> <<>>]

SearchInit ==
    \E semantic \in ThresholdLists("semantic", SemanticThreshold),
       fuzzy \in ThresholdLists("fuzzy", FuzzyThreshold),
       regex \in RegexLists :
        search = [pc |-> "called", semantic |-> semantic, fuzzy |-> fuzzy,
                  regex |-> regex, results |-> <<>>]

HybridSearch ==
    /\ search.pc = "called"
    /\ search' = [search EXCEPT
                    !.pc = "done",
                    !.results = hybrid_search(search.semantic, search.fuzzy,
                                              search.regex)]
    /\ UNCHANGED <<chat_vars, wiki_vars, embed_vars, chunk_vars, repo_vars, kg_vars, rest_vars>>

(***************************************************************************)
(* GrokPineconeRAG.process_urls (the Django service and the CLI).  A page  *)
(* is given by its words, text.split(); a chunk, the words joined by one   *)
(* space, by the words it joins.                                           *)
(***************************************************************************)
WikiUrls == {"u1", "u2", "u3"}

\* the most urls in one call, and the most calls in a behaviour
MaxUrls == 2
MaxWikiCalls == 2

\* `chunk_size: int = 500, overlap: int = 50`
ChunkSize == 500
ChunkOverlap == 50

\* the words of the page behind a url: a short page, a page of more words than
\* one chunk holds, and a url with no page (fetch_wikipedia_content gives "")
PageWords(url) ==
    CASE url = "u1" -> <<"w1", "w2", "w3">>
      [] url = "u2" -> [i \in 1..(ChunkSize - ChunkOverlap + 1) |-> "w"]
      [] OTHER -> <<>>

\* chunk_text, for chunk_size > overlap: one chunk per i in
\* range(0, len(words), chunk_size - overlap), the words[i:i + chunk_size]
chunk_text(words, chunk_size, overlap) ==
    LET step == chunk_size - overlap
        n == (Len(words) + step - 1) \div step
    IN  [k \in 1..n |->
            SubSeq(words, (k - 1) * step + 1,
                   Min((k - 1) * step + chunk_size, Len(words)))]

\* str(uuid.uuid4()): a value never drawn before; `drawn` counts the draws
Uuid4(drawn) == "uuid-" \o ToString(drawn)

\* the `vectors` list built for one url
WikiVectors(chunks, url, drawn) ==
    [k \in 1..Len(chunks) |->
        [id |-> Uuid4(drawn + k - 1),
         source |-> url,
         text |-> chunks[k],
         chunk_index |-> k - 1]]

RECURSIVE ProcessUrlsFrom(_, _, _, _, _)
\* the `for url in urls` loop from position k on.  st: the index, the uuid
\* draws, processed_urls, and whether index.upsert raised (which ends the
\* call).  A fetch at a position in fetch_errs fails and yields "".
ProcessUrlsFrom(st, urls, k, fetch_errs, upsert_err) ==
    IF k > Len(urls) \/ st.raised THEN st
    ELSE LET url == urls[k]
             content == IF k \in fetch_errs THEN <<>> ELSE PageWords(url)
             chunks == chunk_text(content, ChunkSize, ChunkOverlap)
             vectors == WikiVectors(chunks, url, st.drawn)
             next ==
                IF content = <<>> \/ vectors = <<>> THEN st
                ELSE IF upsert_err = k
                THEN [st EXCEPT !.drawn = @ + Len(vectors), !.raised = TRUE]
                ELSE [st EXCEPT
                        !.index = PineconeUpsert(@, vectors),
                        !.drawn = @ + Len(vectors),
                        !.processed =
                            Append(@, [url |-> url, chunks |-> Len(vectors)])]
         IN  ProcessUrlsFrom(next, urls, k + 1, fetch_errs, upsert_err)

WikiIdle == [op |-> "", urls |-> <<>>, processed |-> <<>>, raised |-> FALSE,
             calls |-> 0]

WikiInit ==
    /\ wiki_index = <<>>
    /\ uuids = 0
    /\ wiki_call = WikiIdle

\* what one process_urls call leaves: the index, the uuid draws, and the call's
\* record; only the service's version returns processed_urls.  (The networkx
\* graph of a call lives in the GrokPineconeRAG object and is not stored.)
ProcessUrlsEffect(op, urls, fetch_errs, upsert_err) ==
    LET st == ProcessUrlsFrom(
                [index |-> wiki_index, drawn |-> uuids, processed |-> <<>>,
                 raised |-> FALSE],
                urls, 1, fetch_errs, upsert_err)
    IN  /\ wiki_index' = st.index
        /\ uuids' = st.drawn
        /\ wiki_call' = [op |-> op, urls |-> urls,
                         processed |->
                            IF st.raised \/ op # "services.process_urls"
                            THEN <<>> ELSE st.processed,
                         raised |-> st.raised,
                         calls |-> wiki_call.calls + 1]

\* wikipedia_scrape/services.py process_urls, called by ProcessUrlsView.post
ServiceProcessUrls ==
    /\ wiki_call.calls < MaxWikiCalls
    /\ \E urls \in SeqsUpTo(WikiUrls, MaxUrls) \ {<<>>} :
        \E fetch_errs \in SUBSET (1..Len(urls)), upsert_err \in 0..Len(urls) :
            ProcessUrlsEffect("services.process_urls", urls, fetch_errs, upsert_err)
    /\ UNCHANGED <<chat_vars, search_vars, embed_vars, chunk_vars, repo_vars, kg_vars, rest_vars>>

\* scrape.py process_urls, called by the CLI's choice 1
ScrapeProcessUrls ==
    /\ wiki_call.calls < MaxWikiCalls
    /\ \E urls \in SeqsUpTo(WikiUrls, MaxUrls) \ {<<>>} :
        \E fetch_errs \in SUBSET (1..Len(urls)), upsert_err \in 0..Len(urls) :
            ProcessUrlsEffect("scrape.process_urls", urls, fetch_errs, upsert_err)
    /\ UNCHANGED <<chat_vars, search_vars, embed_vars, chunk_vars, repo_vars, kg_vars, rest_vars>>

\* the stored chunks of a url
ChunksStoredFor(url) ==
    Cardinality({k \in 1..Len(wiki_index) : wiki_index[k].source = url})

(***************************************************************************)
(* EnhancedEmbeddings: embed_documents with its fallback, and batch_embed. *)
(***************************************************************************)
\* self.fallback_chain
FallbackChain == <<"openai", "codebert", "all-mpnet">>

\* the most texts and the largest batch_size of a batch_embed call, and the
\* most calls in a behaviour
MaxTexts == 2
MaxBatchSize == 2
MaxEmbedCalls == 2

\* the length of the vectors each model produces: text-embedding-3-large,
\* microsoft/codebert-base, all-mpnet-base-v2
ModelDimension(model) ==
    CASE model = "openai" -> 3072
      [] model = "codebert" -> 768
      [] OTHER -> 768

\* get_embedding_dimension
get_embedding_dimension(model) ==
    IF model = "openai" THEN 3072
    ELSE IF model = "codebert" THEN 768
    ELSE 768

\* get_model_info
get_model_info(model) ==
    [model |-> model,
     dimension |-> get_embedding_dimension(model),
     fallback_chain |-> FallbackChain]

\* self.models[model].embed_documents(texts[first:last]) when it succeeds
ModelVectors(model, first, last) ==
    [k \in 1..(last - first + 1) |->
        [text |-> first + k - 1, model |-> model, dim |-> ModelDimension(model)]]

\* FallbackModel without the assignment: current_model is left as it was
KeepCurrentModel(current, model_name) == current

\* `self.current_model = model_name` in the fallback loop
FallbackModel(current, model_name) == model_name

\* RaisedError raising the error of the last model tried instead
RaiseLastError(error, attempts) ==
    [model |-> attempts[Len(attempts)].model, attempt |-> Len(attempts)]

\* `raise error` once the chain is exhausted: the error embed_documents caught
RaisedError(error, attempts) == error

NoError == [model |-> "", attempt |-> 0]

EmbedIdle(calls) ==
    [pc |-> "idle", calls |-> calls, n |-> 0, batch_size |-> 0, i |-> 0,
     embeddings |-> <<>>,     \* batch_embed's local list
     attempts |-> <<>>,       \* the models the latest embed_documents call tried
     batch_vectors |-> <<>>,  \* what the latest embed_documents call returned
     error |-> NoError,       \* the `e` embed_documents caught
     chain_pos |-> 0,         \* the position of the fallback loop in the chain
     returned |-> <<>>,       \* what batch_embed returned
     raised |-> NoError]      \* the error batch_embed raised

EmbedInit ==
    /\ current_model = "openai"
    /\ embed = EmbedIdle(0)

\* batch_embed(texts, batch_size) is called with n texts
BatchEmbedCall ==
    /\ embed.pc = "idle"
    /\ embed.calls < MaxEmbedCalls
    /\ \E n \in 0..MaxTexts, batch_size \in 1..MaxBatchSize :
        embed' = [EmbedIdle(embed.calls + 1) EXCEPT
                    !.pc = IF n = 0 THEN "returned" ELSE "batch",
                    !.n = n, !.batch_size = batch_size]
    /\ UNCHANGED current_model
    /\ UNCHANGED <<chat_vars, search_vars, wiki_vars, chunk_vars, repo_vars, kg_vars, rest_vars>>

\* the state of batch_embed after embed_documents returned `vectors` for the
\* batch texts[i:i + batch_size]
AfterBatch(e, vectors, attempts) ==
    [e EXCEPT
        !.pc = IF e.i + e.batch_size >= e.n THEN "returned" ELSE "batch",
        !.i = e.i + e.batch_size,
        !.embeddings = e.embeddings \o vectors,
        !.returned = IF e.i + e.batch_size >= e.n
                     THEN e.embeddings \o vectors ELSE <<>>,
        !.attempts = attempts,
        !.batch_vectors = vectors,
        !.chain_pos = 0]

\* embed_documents(batch): the try with the current model
EmbedTry ==
    /\ embed.pc = "batch"
    /\ \E ok \in BOOLEAN :
        LET first == embed.i + 1
            last == Min(embed.i + embed.batch_size, embed.n)
            attempts == <<[model |-> current_model, ok |-> ok]>>
        IN  embed' =
              IF ok THEN AfterBatch(embed, ModelVectors(current_model, first, last),
                                    attempts)
              ELSE [embed EXCEPT
                      !.pc = "fallback",
                      !.attempts = attempts,
                      !.batch_vectors = <<>>,
                      !.error = [model |-> current_model, attempt |-> 1],
                      !.chain_pos = 1]
    /\ UNCHANGED current_model
    /\ UNCHANGED <<chat_vars, search_vars, wiki_vars, chunk_vars, repo_vars, kg_vars, rest_vars>>

\* _fallback_embed_documents: one turn of `for model_name in self.fallback_chain`,
\* or the `raise error` after the loop
EmbedFallback ==
    /\ embed.pc = "fallback"
    /\ \E ok \in BOOLEAN :
        LET first == embed.i + 1
            last == Min(embed.i + embed.batch_size, embed.n)
            model_name == FallbackChain[embed.chain_pos]
            attempts == Append(embed.attempts, [model |-> model_name, ok |-> ok])
        IN  IF embed.chain_pos > Len(FallbackChain)
            THEN /\ embed' = [embed EXCEPT
                                !.pc = "raised",
                                !.raised = RaisedError(embed.error, embed.attempts)]
                 /\ UNCHANGED current_model
            ELSE IF model_name = current_model
            THEN /\ embed' = [embed EXCEPT !.chain_pos = @ + 1]
                 /\ UNCHANGED current_model
            ELSE /\ current_model' = FallbackModel(current_model, model_name)
                 /\ embed' =
                      IF ok THEN AfterBatch(embed,
                                            ModelVectors(model_name, first, last),
                                            attempts)
                      ELSE [embed EXCEPT !.attempts = attempts,
                                         !.chain_pos = @ + 1]
    /\ UNCHANGED <<chat_vars, search_vars, wiki_vars, chunk_vars, repo_vars, kg_vars, rest_vars>>

\* batch_embed has returned or raised; the caller goes on
EmbedReturn ==
    /\ embed.pc \in {"returned", "raised"}
    /\ embed' = EmbedIdle(embed.calls)
    /\ UNCHANGED current_model
    /\ UNCHANGED <<chat_vars, search_vars, wiki_vars, chunk_vars, repo_vars, kg_vars, rest_vars>>

(***************************************************************************)
(* RepoRAG._split_text_into_chunks.                                        *)
(***************************************************************************)
\* the longest text and the largest chunk_size of a call
MaxTextLen == 4
MaxChunkSize == 3

\* the turns of the `while` loop the model follows: more than any call with
\* chunk_size > overlap needs, so only a loop that never ends is cut off
MaxTurns == MaxTextLen + 2

\* Python's slice bound: a negative index counts from the end, and both ends
\* are clamped to the sequence
PyIndex(i, n) ==
    IF i < 0 THEN (IF i + n < 0 THEN 0 ELSE i + n) ELSE Min(i, n)

\* Python's s[a:b]
PySlice(s, a, b) ==
    LET lo == PyIndex(a, Len(s))
        hi == PyIndex(b, Len(s))
    IN  IF lo >= hi THEN <<>> ELSE SubSeq(s, lo + 1, hi)

\* the texts a chunker is called with: letters and blanks
ChunkTexts == SeqsUpTo({"a", " "}, MaxTextLen)

\* `while start < len(text)`, evaluated as `start <= len(text)`
LoopWhileNotPast(start, n) == start <= n

\* `while start < len(text)`
LoopCondition(start, n) == start < n

\* `start += chunk_size - overlap`, without the overlap
AdvanceBySize(start, chunk_size, overlap) == start + chunk_size

\* `start += chunk_size - overlap`
AdvanceStart(start, chunk_size, overlap) == start + chunk_size - overlap

ChunkerIdle ==
    [pc |-> "idle", text |-> <<>>, chunk_size |-> 0, overlap |-> 0,
     start |-> 0, chunks |-> <<>>]

\* a call with chunk_size > overlap >= 0: `chunks = []`, `start = 0`
ChunkInit ==
    \E text \in ChunkTexts,
       chunk_size \in 1..MaxChunkSize :
        \E overlap \in 0..(chunk_size - 1) :
            chunker = [pc |-> "loop", text |-> text, chunk_size |-> chunk_size,
                       overlap |-> overlap, start |-> 0, chunks |-> <<>>]

\* one turn of `while start < len(text)`
SplitTurn ==
    /\ chunker.pc = "loop"
    /\ LoopCondition(chunker.start, Len(chunker.text))
    /\ Len(chunker.chunks) < MaxTurns
    /\ chunker' = [chunker EXCEPT
                     !.chunks = Append(@, PySlice(chunker.text, chunker.start,
                                                  chunker.start + chunker.chunk_size)),
                     !.start = AdvanceStart(@, chunker.chunk_size, chunker.overlap)]
    /\ UNCHANGED <<chat_vars, search_vars, wiki_vars, embed_vars, words_call, repo_vars, kg_vars, rest_vars>>

\* the loop ends: `return chunks`
SplitReturn ==
    /\ chunker.pc = "loop"
    /\ ~LoopCondition(chunker.start, Len(chunker.text))
    /\ chunker' = [chunker EXCEPT !.pc = "done"]
    /\ UNCHANGED <<chat_vars, search_vars, wiki_vars, embed_vars, words_call, repo_vars, kg_vars, rest_vars>>

\* a call with overlap >= chunk_size, which the signature does not exclude
ChunkAnyInit ==
    \E text \in ChunkTexts,
       chunk_size \in 1..MaxChunkSize :
        \E overlap \in chunk_size..(MaxChunkSize + 1) :
            chunker = [pc |-> "loop", text |-> text, chunk_size |-> chunk_size,
                       overlap |-> overlap, start |-> 0, chunks |-> <<>>]

\* str.split(): the maximal runs of non-blank characters, in order
py_split(text) ==
    LET IsStart(k) == text[k] # " " /\ (k = 1 \/ text[k - 1] = " ")
        EndOf(k) == CHOOSE e \in k..Len(text) :
                        /\ \A j \in k..e : text[j] # " "
                        /\ (e = Len(text) \/ text[e + 1] = " ")
        starts == {k \in 1..Len(text) : IsStart(k)}
        Nth(i) == CHOOSE k \in starts : Cardinality({j \in starts : j < k}) = i - 1
    IN  [i \in 1..Cardinality(starts) |-> SubSeq(text, Nth(i), EndOf(Nth(i)))]

\* ' '.join(words)
RECURSIVE JoinWords(_)
JoinWords(words) ==
    IF words = <<>> THEN <<>>
    ELSE IF Len(words) = 1 THEN words[1]
    ELSE words[1] \o <<" ">> \o JoinWords(Tail(words))

\* chunk_text(text, chunk_size, overlap) as a whole: range() raises ValueError
\* for a step of zero and is empty for a negative step
ChunkTextOutcome(text, chunk_size, overlap) ==
    LET words == py_split(text)
        step == chunk_size - overlap
    IN  IF step = 0 THEN [raised |-> TRUE, chunks |-> <<>>]
        ELSE IF step < 0 THEN [raised |-> FALSE, chunks |-> <<>>]
        ELSE LET cs == chunk_text(words, chunk_size, overlap)
             IN  [raised |-> FALSE,
                  chunks |-> [k \in 1..Len(cs) |-> JoinWords(cs[k])]]

WordsIdle ==
    [pc |-> "idle", text |-> <<>>, chunk_size |-> 0, overlap |-> 0,
     chunks |-> <<>>, raised |-> FALSE]

ChunkTextEffect(text, chunk_size, overlap) ==
    LET out == ChunkTextOutcome(text, chunk_size, overlap)
    IN  /\ words_call' = [pc |-> "done", text |-> text, chunk_size |-> chunk_size,
                          overlap |-> overlap, chunks |-> out.chunks,
                          raised |-> out.raised]
        /\ UNCHANGED <<chat_vars, search_vars, wiki_vars, embed_vars, chunker, repo_vars, kg_vars, rest_vars>>

\* chunk_text called with the text, chunk_size and overlap of the
\* _split_text_into_chunks call, where chunk_size > overlap >= 0
ChunkText ==
    /\ words_call.pc = "idle"
    /\ chunker.overlap < chunker.chunk_size
    /\ ChunkTextEffect(chunker.text, chunker.chunk_size, chunker.overlap)

\* chunk_text called with the text, chunk_size and overlap of the
\* _split_text_into_chunks call, where overlap >= chunk_size
ChunkTextAny ==
    /\ words_call.pc = "idle"
    /\ chunker.overlap >= chunker.chunk_size
    /\ ChunkTextEffect(chunker.text, chunker.chunk_size, chunker.overlap)

(***************************************************************************)
(* RepoRAG (github_integration/views.py): index_entire_repo and            *)
(* chat_entire_repo.  Every request builds its own RepoRAG; what requests  *)
(* share is the directory repo_indices/.  Names are sequences of path      *)
(* tokens, "/" being a token of its own.  Distances and scores are floats  *)
(* of FloatBits significant bits, written in units of 1/FixedOne.          *)
(***************************************************************************)
MaxRepoRequests == 3

\* the significant bits of the float format (float32 has 24)
FloatBits == 3
FixedOne == 2^8

\* n/d rounded to the nearest integer, ties to the even one
RoundHalfEven(n, d) ==
    LET q == n \div d
        r == n % d
    IN  IF 2 * r < d THEN q
        ELSE IF 2 * r > d THEN q + 1
        ELSE IF q % 2 = 0 THEN q ELSE q + 1

\* the binary exponent of n/d: the quotient is kept to FloatBits bits
FloatExponent(n, d) ==
    LET fits == {e \in 0..16 : n \div (2^(FloatBits - 1) * d) >= 2^e}
    IN  IF fits = {} THEN 0 ELSE CHOOSE e \in fits : \A f \in fits : f <= e

\* n/d as the nearest float
FloatRound(n, d) ==
    LET e == FloatExponent(n, d)
    IN  RoundHalfEven(n, d * 2^e) * 2^e

float_add(a, b) == FloatRound(a + b, 1)
float_div(a, b) == FloatRound(a * FixedOne, b)

\* the largest float, which faiss reports next to a label of -1
FltMax == 7 * 2^13

\* the L2 distances between a query and a stored chunk: 0, 1/16, 1, 3
RealDistances == {0, 16, 256, 768}

\* `'score': 1 / (1 + dist)`, with the distance itself for the score
DistanceAsScore(dist) == dist

\* `'score': 1 / (1 + dist)`
similarity_score(dist) == float_div(FixedOne, float_add(FixedOne, dist))

\* `top_k=3`
RepoTopK == 3

\* `chunk_size=500, overlap=100`
RepoChunkSize == 500
RepoChunkOverlap == 100

Owners == {<<"o">>}
RepoNames == {<<"r">>, <<"r2">>, <<"r", "/", "main">>}
Branches == {<<"main">>, <<>>}

\* os.path.join(a, b)
os_path_join(a, b) ==
    IF b # <<>> /\ b[1] = "/" THEN b
    ELSE IF a = <<>> \/ a[Len(a)] = "/" THEN a \o b
    ELSE a \o <<"/">> \o b

\* _get_index_path
get_index_path(owner, repo, branch) ==
    LET index_dir == os_path_join(os_path_join(os_path_join(
                        <<"repo_indices">>, owner), repo), branch)
    IN  os_path_join(index_dir, <<"repo_index.faiss">>)

RepoPaths ==
    {get_index_path(o, r, b) : o \in Owners, r \in RepoNames, b \in Branches}

NoIndex == [saved |-> FALSE, ntotal |-> 0, file_metadata |-> <<>>]

\* what GitHub serves for the tree and the raw files of a repository branch:
\* two repositories exist, every other url is answered 404
GitHubTree(owner, repo, branch) ==
    IF owner = <<"o">> /\ repo = <<"r">> /\ branch = <<"main">>
    THEN [status |-> 200,
          tree |-> << [path |-> "a.py", ext |-> "py", content |-> <<"x">>],
                      [path |-> "i.png", ext |-> "png", content |-> <<"p">>],
                      [path |-> "b.md", ext |-> "md", content |-> <<"y", "y">>] >>]
    ELSE IF owner = <<"o">> /\ repo = <<"r2">> /\ branch = <<"main">>
    THEN [status |-> 200,
          tree |-> << [path |-> "c.py", ext |-> "py", content |-> <<"z">>] >>]
    ELSE [status |-> 404, tree |-> <<>>]

\* _is_text_file: by extension
is_text_file(file) == file.ext \in {"py", "md", "txt", "js", "json"}

RECURSIVE Filter(_, _)
\* the entries of s whose position is in `keep`, in order
Filter(s, keep) ==
    IF s = <<>> THEN <<>>
    ELSE LET front == Filter(SubSeq(s, 1, Len(s) - 1), keep)
         IN  IF Len(s) \in keep THEN Append(front, s[Len(s)]) ELSE front

RECURSIVE split_text_into_chunks(_, _, _, _)
\* _split_text_into_chunks, from `start` on
split_text_into_chunks(text, chunk_size, overlap, start) ==
    IF ~LoopCondition(start, Len(text)) THEN <<>>
    ELSE <<PySlice(text, start, start + chunk_size)>>
            \o split_text_into_chunks(text, chunk_size, overlap,
                                      AdvanceStart(start, chunk_size, overlap))

RECURSIVE index_single_file(_, _, _, _, _)
\* _index_single_file: one metadata entry and one vector per chunk whose
\* embedding is not None.  `seen` counts the generate_embedding calls of the
\* run so far, `embed_fails` are the calls that return None.
index_single_file(file_metadata, path, chunks, seen, embed_fails) ==
    IF chunks = <<>> THEN file_metadata
    ELSE index_single_file(
            IF (seen + 1) \in embed_fails THEN file_metadata
            ELSE Append(file_metadata, [index |-> Len(file_metadata),
                                        path |-> path, chunk |-> Head(chunks)]),
            path, Tail(chunks), seen + 1, embed_fails)

\* the chunks of a file
FileChunks(f) ==
    split_text_into_chunks(f.content, RepoChunkSize, RepoChunkOverlap, 0)

RECURSIVE index_repo_files(_, _, _, _)
\* index_repo_files: the text files, in order
index_repo_files(file_metadata, files_data, seen, embed_fails) ==
    IF files_data = <<>> THEN file_metadata
    ELSE LET f == Head(files_data)
             next == IF is_text_file(f)
                     THEN index_single_file(file_metadata, f.path, FileChunks(f),
                                            seen, embed_fails)
                     ELSE file_metadata
             called == IF is_text_file(f) THEN Len(FileChunks(f)) ELSE 0
         IN  index_repo_files(next, Tail(files_data), seen + called, embed_fails)

RECURSIVE CountChunks(_)
\* the number of generate_embedding calls index_repo_files makes
CountChunks(files_data) ==
    IF files_data = <<>> THEN 0
    ELSE (IF is_text_file(Head(files_data)) THEN Len(FileChunks(Head(files_data)))
          ELSE 0) + CountChunks(Tail(files_data))

RECURSIVE NearestFirst(_)
\* the (distance, label) pairs by ascending distance
NearestFirst(pairs) ==
    IF pairs = <<>> THEN <<>>
    ELSE LET front == NearestFirst(SubSeq(pairs, 1, Len(pairs) - 1))
             x == pairs[Len(pairs)]
             k == Cardinality({i \in 1..Len(front) : front[i].dist <= x.dist})
         IN  SubSeq(front, 1, k) \o <<x>> \o SubSeq(front, k + 1, Len(front))

\* faiss_index.search(query, top_k): the top_k nearest vectors, and where the
\* index holds fewer, label -1 with the largest float for a distance
faiss_search(dists, top_k) ==
    LET found == NearestFirst([i \in 1..Len(dists) |->
                                  [dist |-> dists[i], idx |-> i - 1]])
    IN  [k \in 1..top_k |->
            IF k <= Len(found) THEN found[k] ELSE [dist |-> FltMax, idx |-> -1]]

\* the loop of retrieve_relevant_context over zip(distances[0], indices[0]);
\* file_metadata[idx] of an empty list raises, and the `except` returns []
retrieve_relevant_context(file_metadata, dists, top_k) ==
    LET hits == faiss_search(dists, top_k)
        n == Len(file_metadata)
        taken == {k \in 1..top_k : hits[k].idx < n}
    IN  IF \E k \in taken : hits[k].idx < 0 /\ n = 0 THEN <<>>
        ELSE LET kept == Filter(hits, taken)
             IN  [k \in 1..Len(kept) |->
                    LET metadata == file_metadata[
                            IF kept[k].idx < 0 THEN n + kept[k].idx + 1
                            ELSE kept[k].idx + 1]
                    IN  [index |-> metadata.index,   \* history: the entry read
                         file_path |-> metadata.path,
                         content |-> metadata.chunk,
                         score |-> similarity_score(kept[k].dist),
                         dist |-> kept[k].dist]]

\* the longest `context` list of a request body
MaxHistory == 7

\* a key a dict of the `context` list does not have
Missing == "<missing>"

\* the `context` lists: turn k of the conversation has content "k"; its third
\* turn has no 'role'
Histories ==
    {[k \in 1..n |-> [role |-> IF k = 3 THEN Missing
                               ELSE IF k % 2 = 1 THEN "user" ELSE "assistant",
                      content |-> ToString(k)]] : n \in 0..MaxHistory}

\* f"{msg.get('role', 'unknown')}: {msg.get('content', 'No content')}"
HistoryLine(msg) ==
    <<IF msg.role = Missing THEN "unknown" ELSE msg.role, ": ",
      IF msg.content = Missing THEN "No content" ELSE msg.content>>

\* the turns of the prompt, were the whole list taken
WholeHistory(chat_context) == chat_context

\* `chat_context[-5:]`
recent_history(chat_context) == PySlice(chat_context, -5, Len(chat_context))

\* the chat_history list: empty for an empty (falsy) context
chat_history(chat_context) ==
    LET recent == recent_history(chat_context)
    IN  [k \in 1..Len(recent) |-> HistoryLine(recent[k])]

\* the outcomes of the `requests.post` of the two chat views
LlmOutcomes == {"ok", "status_error", "request_exception"}

\* the status of the JsonResponse after the post: the API's own status when it
\* is not 200, and 200 with the error text as 'response' after an exception
llm_response_status(outcome) == IF outcome = "status_error" THEN 500 ELSE 200

NoRepoCall ==
    [op |-> "", pc |-> "done",   \* "prompt": a chat view has its contexts
     owner |-> <<>>, repo |-> <<>>, branch |-> <<>>, status |-> 0,
     error |-> FALSE, files_indexed |-> 0, contexts |-> <<>>,
     \* history: an embedding of the run failed; save_index wrote the index
     embed_failed |-> FALSE, persisted |-> FALSE,
     \* the `context` of the request body and the lines of it in the prompt
     chat_context |-> <<>>, chat_history |-> <<>>,
     \* history: the vectors of the index searched; the requests sent to the
     \* chat-completion API
     ntotal |-> 0, posts |-> 0]

RepoInit ==
    /\ repo_indices = [path \in RepoPaths |-> NoIndex]
    /\ repo_call = NoRepoCall
    /\ repo_served = 0

\* index_entire_repo: an index found on disk is reported and left as it is;
\* otherwise the tree and the raw files are fetched (any fetch may fail), the
\* text files are indexed and the index is saved (save_index only prints its
\* errors)
IndexEntireRepo ==
    /\ repo_call.pc = "done"
    /\ repo_served < MaxRepoRequests
    /\ \E owner \in Owners, repo \in RepoNames, branch \in Branches,
          tree_ok \in BOOLEAN, save_ok \in BOOLEAN :
        LET path == get_index_path(owner, repo, branch)
            found == repo_indices[path]
            fetched == GitHubTree(owner, repo, branch)
            answer(status, error, n, embed_failed, persisted) ==
                [op |-> "index", pc |-> "done", owner |-> owner, repo |-> repo,
                 branch |-> branch, status |-> status, error |-> error,
                 files_indexed |-> n, contexts |-> <<>>,
                 embed_failed |-> embed_failed, persisted |-> persisted,
                 chat_context |-> <<>>, chat_history |-> <<>>,
                 ntotal |-> 0, posts |-> 0]
        IN  IF found.saved
            THEN /\ repo_call' = answer(200, FALSE, Len(found.file_metadata),
                                        FALSE, FALSE)
                 /\ UNCHANGED repo_indices
            ELSE IF ~tree_ok \/ fetched.status # 200
            THEN /\ repo_call' = answer(400, TRUE, 0, FALSE, FALSE)
                 /\ UNCHANGED repo_indices
            ELSE \E got \in SUBSET {k \in 1..Len(fetched.tree) :
                                        is_text_file(fetched.tree[k])} :
                 LET files_contents == Filter(fetched.tree, got) IN
                 \E embed_fails \in SUBSET (1..CountChunks(files_contents)) :
                    LET file_metadata == index_repo_files(<<>>, files_contents,
                                                          0, embed_fails)
                    IN  /\ repo_call' = answer(200, FALSE, Len(files_contents),
                                               embed_fails # {}, save_ok)
                        /\ repo_indices' =
                             IF save_ok
                             THEN [repo_indices EXCEPT ![path] =
                                     [saved |-> TRUE,
                                      ntotal |-> Len(file_metadata),
                                      file_metadata |-> file_metadata]]
                             ELSE repo_indices
    /\ repo_served' = repo_served + 1
    /\ UNCHANGED <<chat_vars, search_vars, wiki_vars, embed_vars, chunk_vars, kg_vars, rest_vars>>

\* chat_entire_repo up to the prompt: load the index of the triple (400 when
\* there is none) and retrieve
ChatEntireRepo ==
    /\ repo_call.pc = "done"
    /\ repo_served < MaxRepoRequests
    /\ \E owner \in Owners, repo \in RepoNames, branch \in Branches,
          embed_ok \in BOOLEAN :
        LET path == get_index_path(owner, repo, branch)
            found == repo_indices[path]
            answer(pc, status, contexts) ==
                [op |-> "chat", pc |-> pc, owner |-> owner, repo |-> repo,
                 branch |-> branch, status |-> status, error |-> status = 400,
                 files_indexed |-> 0, contexts |-> contexts,
                 embed_failed |-> FALSE, persisted |-> FALSE,
                 chat_context |-> <<>>, chat_history |-> <<>>,
                 ntotal |-> found.ntotal, posts |-> 0]
        IN  IF ~found.saved
            THEN repo_call' = answer("done", 400, <<>>)
            ELSE \E dists \in [1..found.ntotal -> RealDistances] :
                    LET contexts ==
                            IF embed_ok
                            THEN retrieve_relevant_context(found.file_metadata,
                                                           dists, RepoTopK)
                            ELSE <<>>
                    IN  repo_call' = answer("prompt", 0, contexts)
    /\ repo_served' = repo_served + 1
    /\ UNCHANGED repo_indices
    /\ UNCHANGED <<chat_vars, search_vars, wiki_vars, embed_vars, chunk_vars, kg_vars, rest_vars>>

\* the rest of a chat view: the recent turns of the request's `context` are
\* folded into the prompt, the prompt is posted, the JsonResponse is built
AskModel(chat_context, outcome) ==
    /\ repo_call.pc = "prompt"
    /\ repo_call' = [repo_call EXCEPT
                       !.pc = "done",
                       !.chat_context = chat_context,
                       !.chat_history = chat_history(chat_context),
                       !.posts = requests_post(@, outcome),
                       !.status = llm_response_status(outcome),
                       !.error = llm_response_status(outcome) # 200]
    /\ UNCHANGED <<repo_indices, repo_served>>
    /\ UNCHANGED <<chat_vars, search_vars, wiki_vars, embed_vars, chunk_vars, kg_vars, rest_vars>>

\* chat_entire_repo from the prompt on
ChatEntireRepoAsk ==
    /\ repo_call.op = "chat"
    /\ \E chat_context \in Histories, outcome \in LlmOutcomes :
          AskModel(chat_context, outcome)

\* FAISSRAG.index_file: one vector and one metadata entry for the whole file,
\* none when its embedding fails
index_file(file_metadata, file_path, content, embed_ok) ==
    IF embed_ok
    THEN Append(file_metadata, [index |-> Len(file_metadata), path |-> file_path,
                                chunk |-> content])
    ELSE file_metadata

\* the files chat_single_file is called with
SelectedFiles == {[path |-> <<"a.py">>, content |-> <<"x">>],
                  [path |-> <<"b.md">>, content |-> <<"y", "y">>]}

\* chat_single_file (views.py) up to the prompt: a new FAISSRAG holding the
\* one file, and retrieval (FAISSRAG.retrieve_relevant_context is RepoRAG's,
\* line for line)
ChatSingleFile ==
    /\ repo_call.pc = "done"
    /\ repo_served < MaxRepoRequests
    /\ \E owner \in Owners, repo \in {<<"r">>}, file \in SelectedFiles,
          index_ok \in BOOLEAN, embed_ok \in BOOLEAN :
        LET file_metadata == index_file(<<>>, file.path, file.content, index_ok)
        IN  \E dists \in [1..Len(file_metadata) -> RealDistances] :
               LET contexts ==
                       IF embed_ok
                       THEN retrieve_relevant_context(file_metadata, dists, RepoTopK)
                       ELSE <<>>
               IN  repo_call' =
                     [op |-> "chat_file", pc |-> "prompt", owner |-> owner,
                      repo |-> repo, branch |-> <<>>, status |-> 0,
                      error |-> FALSE,
                      files_indexed |-> 0, contexts |-> contexts,
                      embed_failed |-> ~index_ok, persisted |-> FALSE,
                      chat_context |-> <<>>, chat_history |-> <<>>,
                      ntotal |-> Len(file_metadata), posts |-> 0]
    /\ repo_served' = repo_served + 1
    /\ UNCHANGED repo_indices
    /\ UNCHANGED <<chat_vars, search_vars, wiki_vars, embed_vars, chunk_vars, kg_vars, rest_vars>>

\* chat_single_file from the prompt on
ChatSingleFileAsk ==
    /\ repo_call.op = "chat_file"
    /\ \E chat_context \in Histories, outcome \in LlmOutcomes :
          AskModel(chat_context, outcome)

(***************************************************************************)
(* GitHubRAG._build_knowledge_graph (graph/github_rag.py) over             *)
(* Neo4jManager.create_node (graph/neo4j_manager.py).                      *)
(***************************************************************************)
MaxBuilds == 3

\* the repositories process_repository is called for
KgRepos == {"repo1", "repo2", "repo3"}

\* results["codebase"]["files"] and results["commits"] of a repository
KgResults(repo) ==
    IF repo = "repo1"
    THEN [files |-> <<"a.py", "b.py">>, commits |-> <<"c1">>]
    ELSE IF repo = "repo2"
    THEN [files |-> <<>>, commits |-> <<>>]
    ELSE [files |-> <<>>, commits |-> <<"c3">>]

\* create_node: `CREATE (n:label $properties) RETURN id(n)`, returned as str
create_node(nodes, label, key) ==
    [nodes |-> Append(nodes, [node_id |-> Len(nodes), label |-> label,
                              key |-> key]),
     ret |-> ToString(Len(nodes))]

\* _build_knowledge_graph: the Repository node, then the node of the first
\* file (or commit); `repo_node["id"]` subscripts the str create_node returned
\* and raises TypeError, which ends the call.  A create_node call may fail:
\* fail_at is the number of the failing call, 0 for none.
build_knowledge_graph(nodes, repo, fail_at) ==
    LET results == KgResults(repo)
        items == [k \in 1..Len(results.files) |->
                    [label |-> "File", key |-> results.files[k]]]
                 \o [k \in 1..Len(results.commits) |->
                    [label |-> "Commit", key |-> results.commits[k]]]
        r1 == create_node(nodes, "Repository", repo)
    IN  IF fail_at = 1 THEN [nodes |-> nodes, raised |-> TRUE]
        ELSE IF items = <<>> THEN [nodes |-> r1.nodes, raised |-> FALSE]
        ELSE IF fail_at = 2 THEN [nodes |-> r1.nodes, raised |-> TRUE]
        ELSE [nodes |-> create_node(r1.nodes, items[1].label, items[1].key).nodes,
              raised |-> TRUE]

KgInit ==
    /\ kg_nodes = <<>>
    /\ kg_call = [repo |-> "", raised |-> FALSE, builds |-> 0]

\* process_repository reaches _build_knowledge_graph(repo, results)
BuildKnowledgeGraph ==
    /\ kg_call.builds < MaxBuilds
    /\ \E repo \in KgRepos, fail_at \in 0..2 :
        LET r == build_knowledge_graph(kg_nodes, repo, fail_at)
        IN  /\ kg_nodes' = r.nodes
            /\ kg_call' = [repo |-> repo, raised |-> r.raised,
                           builds |-> kg_call.builds + 1]
    /\ UNCHANGED <<chat_vars, search_vars, wiki_vars, embed_vars, chunk_vars, repo_vars, rest_vars>>

(***************************************************************************)
(* Two concurrent index_entire_repo requests for the same (owner, repo,    *)
(* branch), each with its own RepoRAG instance, over the two files of the  *)
(* triple's directory.  A vector is written as the chunk it embeds.        *)
(***************************************************************************)
IndexRuns == {1, 2}

RaceOwner == <<"o">>
RaceRepo == <<"r">>
RaceBranch == <<"main">>

NoFile == [exists |-> FALSE, run |-> 0, data |-> <<>>]

NoRun == [pc |-> "load_index", file_metadata |-> <<>>, vectors |-> <<>>, status |-> 0]

RECURSIVE ChunksEmbedded(_)
\* the vectors faiss_index.add received, one per metadata entry
ChunksEmbedded(file_metadata) ==
    IF file_metadata = <<>> THEN <<>>
    ELSE <<Head(file_metadata).chunk>> \o ChunksEmbedded(Tail(file_metadata))

RaceInit ==
    /\ index_files = [faiss |-> NoFile, metadata |-> NoFile]
    /\ index_runs = [p \in IndexRuns |-> NoRun]

\* load_index: both files exist -> 'Existing index loaded'
RaceLoadIndex ==
    \E p \in IndexRuns :
        /\ index_runs[p].pc = "load_index"
        /\ index_runs' =
              [index_runs EXCEPT ![p] =
                 IF index_files.faiss.exists /\ index_files.metadata.exists
                 THEN [pc |-> "done", file_metadata |-> index_files.metadata.data,
                       vectors |-> index_files.faiss.data, status |-> 200]
                 ELSE [@ EXCEPT !.pc = "fetch"]]
        /\ UNCHANGED <<index_files, embed_calls, limit_vars, main_vars>>

\* the tree and the contents are fetched and index_repo_files fills the instance
RaceIndexRepoFiles ==
    \E p \in IndexRuns, tree_ok \in BOOLEAN :
        LET fetched == GitHubTree(RaceOwner, RaceRepo, RaceBranch) IN
        /\ index_runs[p].pc = "fetch"
        /\ IF ~tree_ok \/ fetched.status # 200
           THEN index_runs' = [index_runs EXCEPT ![p].pc = "done", ![p].status = 400]
           ELSE \E got \in SUBSET {k \in 1..Len(fetched.tree) :
                                       is_text_file(fetched.tree[k])} :
                   LET file_metadata ==
                           index_repo_files(<<>>, Filter(fetched.tree, got), 0, {})
                   IN  index_runs' =
                         [index_runs EXCEPT ![p] =
                            [pc |-> "write_index", file_metadata |-> file_metadata,
                             vectors |-> ChunksEmbedded(file_metadata), status |-> 0]]
        /\ UNCHANGED <<index_files, embed_calls, limit_vars, main_vars>>

\* save_index: faiss.write_index; an exception ends save_index
RaceWriteIndex ==
    \E p \in IndexRuns, ok \in BOOLEAN :
        /\ index_runs[p].pc = "write_index"
        /\ IF ok
           THEN /\ index_files' =
                     [index_files EXCEPT !.faiss =
                        [exists |-> TRUE, run |-> p, data |-> index_runs[p].vectors]]
                /\ index_runs' = [index_runs EXCEPT ![p].pc = "write_metadata"]
           ELSE /\ index_runs' = [index_runs EXCEPT ![p].pc = "done", ![p].status = 200]
                /\ UNCHANGED index_files
        /\ UNCHANGED <<embed_calls, limit_vars, main_vars>>

\* save_index: json.dump of file_metadata; then the response
RaceWriteMetadata ==
    \E p \in IndexRuns, ok \in BOOLEAN :
        /\ index_runs[p].pc = "write_metadata"
        /\ index_files' =
              IF ok
              THEN [index_files EXCEPT !.metadata =
                      [exists |-> TRUE, run |-> p, data |-> index_runs[p].file_metadata]]
              ELSE index_files
        /\ index_runs' = [index_runs EXCEPT ![p].pc = "done", ![p].status = 200]
        /\ UNCHANGED <<embed_calls, limit_vars, main_vars>>

(***************************************************************************)
(* Two threads, each calling embed_documents once on the same              *)
(* EnhancedEmbeddings instance and then asking the instance for its model  *)
(* (get_embedding_dimension).  self.current_model is the variable          *)
(* current_model; every read and every write of it is a step.              *)
(***************************************************************************)
EmbedThreads == {1, 2}

NoCall ==
    [pc |-> "embed_documents",
     model |-> "",        \* the key of self.models the thread is calling
     chain_pos |-> 0,     \* the position of the fallback loop in the chain
     used |-> "",         \* the model that produced the vectors returned
     raised |-> FALSE,    \* the call raised
     reported |-> "",     \* the model the instance reported after the call
     dimension |-> 0]     \* get_embedding_dimension() after the call

\* every variable but current_model and embed_calls
shared_unchanged == <<chat_vars, search_vars, wiki_vars, embed, chunk_vars, repo_vars, kg_vars, race_vars, limit_vars>>

SharedInit == embed_calls = [p \in EmbedThreads |-> NoCall]

\* embed_documents: `self.models[self.current_model]` is looked up
SharedLookup ==
    \E p \in EmbedThreads :
        /\ embed_calls[p].pc = "embed_documents"
        /\ embed_calls' = [embed_calls EXCEPT ![p].pc = "call",
                                              ![p].model = current_model]
        /\ UNCHANGED <<current_model, shared_unchanged>>

\* the model's embed_documents returns or raises, in the try of embed_documents
\* or in the try of the fallback loop
SharedCall ==
    \E p \in EmbedThreads, ok \in BOOLEAN :
        LET c == embed_calls[p] IN
        /\ c.pc = "call"
        /\ embed_calls' =
              [embed_calls EXCEPT ![p] =
                 IF ok THEN [c EXCEPT !.pc = "returned", !.used = c.model]
                 ELSE [c EXCEPT !.pc = "fallback", !.chain_pos = c.chain_pos + 1]]
        /\ UNCHANGED <<current_model, shared_unchanged>>

\* _fallback_embed_documents: the head of one turn of the loop, up to the
\* assignment `self.current_model = model_name`; `raise error` after the loop
SharedFallback ==
    \E p \in EmbedThreads :
        LET c == embed_calls[p]
            model_name == FallbackChain[c.chain_pos]
        IN  /\ c.pc = "fallback"
            /\ IF c.chain_pos > Len(FallbackChain)
               THEN /\ embed_calls' = [embed_calls EXCEPT ![p].pc = "done",
                                                          ![p].raised = TRUE]
                    /\ UNCHANGED current_model
               ELSE IF model_name = current_model
               THEN /\ embed_calls' = [embed_calls EXCEPT ![p].chain_pos = @ + 1]
                    /\ UNCHANGED current_model
               ELSE /\ current_model' = FallbackModel(current_model, model_name)
                    /\ embed_calls' = [embed_calls EXCEPT ![p].pc = "call",
                                                          ![p].model = model_name]
            /\ UNCHANGED shared_unchanged

\* the caller asks the instance which model it used: get_embedding_dimension
SharedReport ==
    \E p \in EmbedThreads :
        /\ embed_calls[p].pc = "returned"
        /\ embed_calls' =
              [embed_calls EXCEPT ![p].pc = "done",
                                  ![p].reported = current_model,
                                  ![p].dimension = get_embedding_dimension(current_model)]
        /\ UNCHANGED <<current_model, shared_unchanged>>

(***************************************************************************)
(* RateLimitMiddleware.dispatch (ml/api/middleware.py).  Time is counted   *)
(* in ticks; the limit of 100 requests and the 60 seconds are scaled to    *)
(* RateLimit requests and RateWindow ticks.                                *)
(***************************************************************************)
\* `> 100` and `< 60`, scaled
RateLimit == 3
RateWindow == 2

\* the last tick of the clock and the most requests of a behaviour
MaxTime == 5
MaxRateRequests == 5

\* request.client.host, "unknown" for a request without a client
ClientIps == {"10.0.0.1", "unknown"}

RatePaths == {"/health", "/chat"}

NoRateCall == [client_ip |-> "", path |-> "", time |-> 0, status |-> 0]

RateInit ==
    /\ rate_requests = [ip \in ClientIps |-> <<>>]
    /\ rate_clock = 0
    /\ rate_call = NoRateCall
    /\ rate_made = [ip \in ClientIps |-> <<>>]

\* "Clean old requests": an IP is dropped when its latest timestamp is a
\* window old; the timestamps of an IP that is kept are all kept
clean_old_requests(requests, current_time) ==
    [ip \in ClientIps |->
        IF requests[ip] # <<>>
           /\ current_time - requests[ip][Len(requests[ip])] < RateWindow
        THEN requests[ip] ELSE <<>>]

\* dispatch: /health goes through; otherwise the old IPs are dropped, the
\* request is recorded, and it is rejected when the IP's list is over the limit
RateDispatch ==
    /\ Len(rate_made["10.0.0.1"]) + Len(rate_made["unknown"]) < MaxRateRequests
    /\ \E client_ip \in ClientIps, path \in RatePaths :
        IF path = "/health"
        THEN /\ rate_call' = [client_ip |-> client_ip, path |-> path,
                              time |-> rate_clock, status |-> 200]
             /\ UNCHANGED <<rate_requests, rate_made>>
        ELSE LET cleaned == clean_old_requests(rate_requests, rate_clock)
                 added == [cleaned EXCEPT ![client_ip] = Append(@, rate_clock)]
             IN  /\ rate_requests' = added
                 /\ rate_made' = [rate_made EXCEPT ![client_ip] = Append(@, rate_clock)]
                 /\ rate_call' =
                       [client_ip |-> client_ip, path |-> path, time |-> rate_clock,
                        status |-> IF Len(added[client_ip]) > RateLimit
                                   THEN 429 ELSE 200]
    /\ UNCHANGED rate_clock
    /\ UNCHANGED <<main_vars, race_vars, embed_calls>>

\* time passes
RateTick ==
    /\ rate_clock < MaxTime
    /\ rate_clock' = rate_clock + 1
    /\ UNCHANGED <<rate_requests, rate_call, rate_made>>
    /\ UNCHANGED <<main_vars, race_vars, embed_calls>>

\* the initial state of the components added to the seven above
RestInit == RaceInit /\ SharedInit /\ RateInit

(***************************************************************************)
(* The specifications.  Each runs one component; the others stay idle.     *)
(***************************************************************************)
Init ==
    /\ ChatInit
    /\ search = SearchIdle
    /\ WikiInit
    /\ EmbedInit
    /\ chunker = ChunkerIdle
    /\ words_call = WordsIdle
    /\ RepoInit
    /\ KgInit
    /\ RestInit

Next == ChatPreprocess \/ ChatRetrieve \/ ChatRefine \/ ChatRespond

Spec == Init /\ [][Next]_vars

ReposNext == ChatPreprocessRepos \/ ChatRetrieve \/ ChatRefine \/ ChatRespond

ReposSpec == Init /\ [][ReposNext]_vars

SearchSpecInit ==
    /\ ChatInit
    /\ SearchInit
    /\ WikiInit
    /\ EmbedInit
    /\ chunker = ChunkerIdle
    /\ words_call = WordsIdle
    /\ RepoInit
    /\ KgInit
    /\ RestInit

SearchNext == HybridSearch

SearchSpec == SearchSpecInit /\ [][SearchNext]_vars

WikiNext == ServiceProcessUrls \/ ScrapeProcessUrls

WikiSpec == Init /\ [][WikiNext]_vars

EmbedNext == BatchEmbedCall \/ EmbedTry \/ EmbedFallback \/ EmbedReturn

EmbedSpec == Init /\ [][EmbedNext]_vars

ChunkSpecInit ==
    /\ ChatInit
    /\ search = SearchIdle
    /\ WikiInit
    /\ EmbedInit
    /\ ChunkInit
    /\ words_call = WordsIdle
    /\ RepoInit
    /\ KgInit
    /\ RestInit

ChunkNext == SplitTurn \/ SplitReturn \/ ChunkText

ChunkSpec == ChunkSpecInit /\ [][ChunkNext]_vars

RepoNext ==
    \/ IndexEntireRepo
    \/ ChatEntireRepo \/ ChatEntireRepoAsk
    \/ ChatSingleFile \/ ChatSingleFileAsk

RepoSpec == Init /\ [][RepoNext]_vars

KgNext == BuildKnowledgeGraph

KgSpec == Init /\ [][KgNext]_vars

RaceNext ==
    RaceLoadIndex \/ RaceIndexRepoFiles \/ RaceWriteIndex \/ RaceWriteMetadata

RaceSpec == Init /\ [][RaceNext]_vars

SharedNext == SharedLookup \/ SharedCall \/ SharedFallback \/ SharedReport

SharedSpec == Init /\ [][SharedNext]_vars

RateNext == RateDispatch \/ RateTick

RateSpec == Init /\ [][RateNext]_vars

ChunkAnySpecInit ==
    /\ ChatInit
    /\ search = SearchIdle
    /\ WikiInit
    /\ EmbedInit
    /\ ChunkAnyInit
    /\ words_call = WordsIdle
    /\ RepoInit
    /\ KgInit
    /\ RestInit

ChunkAnyNext == SplitTurn \/ SplitReturn \/ ChunkTextAny

\* the loop and the call are not abandoned half-way
ChunkAnySpec ==
    /\ ChunkAnySpecInit
    /\ [][ChunkAnyNext]_vars
    /\ WF_vars(SplitTurn) /\ WF_vars(SplitReturn) /\ WF_vars(ChunkTextAny)

(***************************************************************************)
(* The claims.                                                             *)
(***************************************************************************)
Last(s) == s[Len(s)]
SetOf(s) == {s[k] : k \in 1..Len(s)}
NoRepeat(s) == \A i, j \in 1..Len(s) : s[i] = s[j] => i = j

\* a character budget that holds any one chunk but not every two
ContextBudget == 4

\* C1: the contexts retrieve_relevant_context returns, and the context block of
\* the prompt refine_answer_with_grok builds from them, stay within the
\* character budget.
C1_ContextWithinBudget ==
    /\ request.pc = "refine" => SumLen(request.contexts) <= ContextBudget
    /\ request.pc = "done" => Len(request.prompt_contexts) <= ContextBudget

\* C2: the contexts retrieve_relevant_context returns hold no text twice.
C2_NoDuplicateContexts ==
    request.pc \in {"refine", "done"} => NoRepeat(request.contexts)

\* no two stored vectors share an id
NoDuplicateIds ==
    \A i, j \in 1..Len(pinecone_index) :
        pinecone_index[i].id = pinecone_index[j].id => i = j

\* one File node per name, one Chunk node per id, one CONTAINS edge per pair
GraphKeyed ==
    /\ NoRepeat(neo4j_graph.files)
    /\ \A i, j \in 1..Len(neo4j_graph.chunks) :
            neo4j_graph.chunks[i].id = neo4j_graph.chunks[j].id => i = j
    /\ NoRepeat(neo4j_graph.contains)

\* a preprocess_file call for a file and content the stores already hold
\* leaves both stores as they were
RerunChangesNothing ==
    (/\ request.pc = "idle"
     /\ request'.pc # "idle"
     /\ Indexed(pinecone_index, neo4j_graph, request'.content, request'.file))
    => (pinecone_index' = pinecone_index /\ neo4j_graph' = neo4j_graph)

\* C4: preprocess_file is idempotent on identical input: the second run writes
\* the ids of the first, so the vector index and the graph store are unchanged
\* by it, no vector id occurs twice, and the graph holds one File node per
\* name, one Chunk node per chunk id and one CONTAINS edge per pair.
C4_PreprocessIdempotent ==
    [](NoDuplicateIds /\ GraphKeyed) /\ [][RerunChangesNothing]_vars

\* a second run for a stored file and content has written both stores
C4_Witness ==
    /\ request.pc = "retrieve"
    /\ request.was_indexed
    /\ ~request.write_errors
    /\ Len(request.processed_chunks) >= 2

\* C6: after preprocess_file has run for a file (no store write failing), the
\* vector index and the graph store hold for that file exactly the chunks of
\* the content just processed.
C6_ReprocessReplaces ==
    (request.pc = "retrieve" /\ ~request.write_errors) =>
        LET f == request.file
            want == Vectors(Take(request.processed_chunks, UpsertLimit), f)
        IN  /\ {v \in SetOf(pinecone_index) : v.file = f} = SetOf(want)
            /\ {r \in SetOf(neo4j_graph.contains) : r[1] = f}
                 = {<<f, want[k].id>> : k \in 1..Len(want)}

\* the results of the three strategies, in the order _hybrid_search reads them
SearchInputs == search.semantic \o search.fuzzy \o search.regex

\* the first of the inputs with the content that has the content's best score
FirstBest(content) ==
    LET all == SearchInputs
        mine == {k \in 1..Len(all) : all[k].content = content}
        best == {k \in mine : \A j \in mine : all[j].score <= all[k].score}
    IN  all[CHOOSE k \in best : \A j \in best : k <= j]

\* C3: _hybrid_search returns its results in non-increasing score order, one
\* per content of the inputs; the result kept for a content has the highest
\* score of that content and, among equal scores, is the earliest of the
\* semantic, fuzzy and regex results.
C3_HybridMerge ==
    search.pc = "done" =>
        /\ SortedDesc(search.results)
        /\ OnePerContent(search.results)
        /\ {r.content : r \in SetOf(search.results)}
             = {r.content : r \in SetOf(SearchInputs)}
        /\ \A r \in SetOf(search.results) : r = FirstBest(r.content)

\* a merge in which a later result replaced an earlier one of lower score and
\* a later result of equal score was not taken
C3_Witness ==
    /\ search.pc = "done"
    /\ Len(search.results) >= 2
    /\ \E r \in SetOf(search.results) :
        /\ r.type = "fuzzy"
        /\ \E s \in SetOf(search.semantic) :
                s.content = r.content /\ s.score < r.score
        /\ \E x \in SetOf(search.regex) :
                x.content = r.content /\ x.score = r.score

\* C5: indexing a url again leaves the number of chunks stored for it as it
\* was: no url has more stored chunks than its page has chunks.
C5_ChunkCountConstant ==
    \A url \in WikiUrls :
        ChunksStoredFor(url)
            <= Len(chunk_text(PageWords(url), ChunkSize, ChunkOverlap))

\* the batch the latest embed_documents call was given: texts[first..last]
BatchFirst == embed.i - embed.batch_size + 1
BatchLast == Min(embed.i, embed.n)

\* C7: when the current model fails on a batch and a later model of the chain
\* succeeds, embed_documents returns vectors for the whole batch, all of that
\* model, and the embedder then reports that model and its dimension; with
\* the primary failing and the secondary succeeding that model is the secondary.
C7_FallbackSuccess ==
    (embed.pc \in {"batch", "returned"} /\ Len(embed.attempts) >= 2) =>
        LET producer == Last(embed.attempts).model IN
        /\ Last(embed.attempts).ok
        /\ \A k \in 1..(Len(embed.attempts) - 1) : ~embed.attempts[k].ok
        /\ Len(embed.batch_vectors) = BatchLast - BatchFirst + 1
        /\ \A k \in 1..Len(embed.batch_vectors) :
            /\ embed.batch_vectors[k].text = BatchFirst + k - 1
            /\ embed.batch_vectors[k].model = producer
            /\ embed.batch_vectors[k].dim = get_model_info(current_model).dimension
        /\ current_model = producer
        /\ get_model_info(current_model).model = producer
        /\ (Len(embed.attempts) = 2 /\ embed.attempts[1].model = FallbackChain[1])
                => producer = FallbackChain[2]

\* the primary failed on a batch and the secondary embedded it
C7_Witness ==
    /\ embed.pc \in {"batch", "returned"}
    /\ Len(embed.attempts) = 2
    /\ embed.attempts[1] = [model |-> "openai", ok |-> FALSE]
    /\ embed.attempts[2] = [model |-> "codebert", ok |-> TRUE]
    /\ Len(embed.batch_vectors) = 2

C9_SingleModelPerCall ==
    embed.pc = "returned" =>
        \A i, j \in 1..Len(embed.returned) :
            /\ embed.returned[i].model = embed.returned[j].model
            /\ embed.returned[i].dim = embed.returned[j].dim

\* C10: the chunks are the windows text[i*step : i*step + size] for
\* step = size - overlap, and every window but the last has exactly `size`
\* characters (so consecutive windows share exactly `overlap` characters).
C10_FullWindows ==
    chunker.pc = "done" =>
        LET step == chunker.chunk_size - chunker.overlap
            n == Len(chunker.chunks)
        IN  \A i \in 1..n :
            /\ chunker.chunks[i]
                 = PySlice(chunker.text, (i - 1) * step,
                           (i - 1) * step + chunker.chunk_size)
            /\ i < n => Len(chunker.chunks[i]) = chunker.chunk_size

\* C11: a chunker called with overlap >= chunk_size on a non-empty text ends,
\* and ends with an error: it never returns chunks, and the call does not run
\* on for ever.
InvalidConfig(c) == c.overlap >= c.chunk_size /\ c.text # <<>>
C11_OverlapRejected ==
    /\ [](chunker.pc = "done" => ~InvalidConfig(chunker))
    /\ [](words_call.pc = "done" /\ InvalidConfig(words_call) => words_call.raised)
    /\ [](chunker.pc = "loop" /\ InvalidConfig(chunker)
            => <>(chunker.pc \notin {"loop", "done"}))

\* the text the chunks stand for: the first chunk, then every later chunk
\* without its first `overlap` characters
RECURSIVE Remainders(_, _)
Remainders(chunks, overlap) ==
    IF chunks = <<>> THEN <<>>
    ELSE PySlice(Head(chunks), overlap, Len(Head(chunks)))
            \o Remainders(Tail(chunks), overlap)
Reconstruct(chunks, overlap) ==
    IF chunks = <<>> THEN <<>>
    ELSE Head(chunks) \o Remainders(Tail(chunks), overlap)

\* C12: for chunk_size > overlap >= 0, the first chunk followed by every later
\* chunk minus its first `overlap` characters is the text.
C12_RoundTrip ==
    chunker.pc = "done" =>
        Reconstruct(chunker.chunks, chunker.overlap) = chunker.text

\* a later chunk is shorter than the overlap, and one is longer
C12_Witness ==
    /\ chunker.pc = "done"
    /\ chunker.overlap > 0
    /\ Len(chunker.chunks) >= 3
    /\ Len(Last(chunker.chunks)) < chunker.overlap
    /\ "a" \in SetOf(chunker.text) /\ " " \in SetOf(chunker.text)

\* C13: for chunk_size > overlap >= 0 the empty text gives no chunks and no
\* error, from _split_text_into_chunks and from chunk_text.
C13_EmptyInput ==
    /\ (chunker.pc = "done" /\ chunker.text = <<>>) => chunker.chunks = <<>>
    /\ (words_call.pc = "done" /\ words_call.text = <<>>)
            => (words_call.chunks = <<>> /\ ~words_call.raised)

\* both chunkers have returned for the empty text
C13_Witness ==
    /\ chunker.pc = "done" /\ chunker.text = <<>>
    /\ words_call.pc = "done" /\ words_call.text = <<>>
    /\ words_call.overlap > 0
\* a chat request that was answered with contexts
RepoChatAnswered == repo_call.op = "chat" /\ repo_call.contexts # <<>>

\* the score of every context is 1 / (1 + distance) and lies in (0, 1], and
\* the contexts come in non-increasing score order
ScoresFromDistances ==
    LET cs == repo_call.contexts
    IN  /\ \A k \in 1..Len(cs) :
            /\ cs[k].dist >= 0
            /\ cs[k].score = float_div(FixedOne, float_add(FixedOne, cs[k].dist))
            /\ cs[k].score > 0 /\ cs[k].score <= FixedOne
        /\ \A k \in 1..(Len(cs) - 1) : cs[k].score >= cs[k + 1].score

\* C14 as stated: score = 1 / (1 + distance) in (0, 1], in non-increasing
\* order, and a smaller distance always has a strictly larger score.
C14_StrictlyLargerScore ==
    /\ ScoresFromDistances
    /\ \A i, j \in 1..Len(repo_call.contexts) :
          repo_call.contexts[i].dist < repo_call.contexts[j].dist
            => repo_call.contexts[i].score > repo_call.contexts[j].score

\* C14: every context has score = 1 / (1 + distance) in float arithmetic, in
\* (0, 1]; the contexts come in non-increasing score order; a smaller
\* distance never has a smaller score (two close distances may round to the
\* same score).
C14_ScoreOrder ==
    /\ ScoresFromDistances
    /\ \A i, j \in 1..Len(repo_call.contexts) :
          repo_call.contexts[i].dist < repo_call.contexts[j].dist
            => repo_call.contexts[i].score >= repo_call.contexts[j].score

\* contexts of different distances, some with the same score and some not
C14_Witness ==
    /\ RepoChatAnswered
    /\ \E i, j \in 1..Len(repo_call.contexts) :
          /\ repo_call.contexts[i].dist < repo_call.contexts[j].dist
          /\ repo_call.contexts[i].score = repo_call.contexts[j].score
    /\ \E i, j \in 1..Len(repo_call.contexts) :
          repo_call.contexts[i].score > repo_call.contexts[j].score

\* the chunks indexed for a triple: those of the files GitHub serves for it
ChunksIndexedFor(owner, repo, branch) ==
    LET file_metadata == index_repo_files(<<>>, GitHubTree(owner, repo, branch).tree,
                                          0, {})
    IN  {file_metadata[k].chunk : k \in 1..Len(file_metadata)}

\* C16: every context chat_entire_repo returns for an (owner, repo, branch)
\* triple is a chunk that was indexed for that triple.
C16_RepoIsolation ==
    repo_call.op = "chat" =>
        \A k \in 1..Len(repo_call.contexts) :
            repo_call.contexts[k].content
                \in ChunksIndexedFor(repo_call.owner, repo_call.repo,
                                     repo_call.branch)

\* the texts the stores hold under ids written for a repository
TextsWrittenFor(repo) ==
    {pinecone_index[k].text : k \in {j \in 1..Len(pinecone_index) :
                                        written_by[pinecone_index[j].id] = repo}}
        \cup {neo4j_graph.chunks[k].content :
                 k \in {j \in 1..Len(neo4j_graph.chunks) :
                           written_by[neo4j_graph.chunks[j].id] = repo}}

\* (a) a request for one repository leaves the entries written for another
\* repository as they are
KeepsOtherRepos ==
    (request.pc = "idle" /\ request'.pc # "idle") =>
        /\ \A k \in 1..Len(pinecone_index) :
              written_by[pinecone_index[k].id] \notin {"", request'.repo}
                => \E j \in 1..Len(pinecone_index') :
                      pinecone_index'[j] = pinecone_index[k]
        /\ \A k \in 1..Len(neo4j_graph.chunks) :
              written_by[neo4j_graph.chunks[k].id] \notin {"", request'.repo}
                => \E j \in 1..Len(neo4j_graph'.chunks) :
                      neo4j_graph'.chunks[j] = neo4j_graph.chunks[k]

\* (b) the contexts of a chat about a repository are texts written for it
ContextsOfOwnRepo ==
    request.pc \in {"refine", "done"} =>
        SetOf(request.contexts) \subseteq TextsWrittenFor(request.repo)

\* C15: the chunks of one repository are kept apart from those of every other:
\* (a) indexing a file of repository B never alters a chunk stored for
\* repository A, even for the same path, and (b) the contexts retrieved for a
\* chat about A are chunks of A.
C15_NamespaceIsolation ==
    []ContextsOfOwnRepo /\ [][KeepsOtherRepos]_vars
\* C17: a failed upsert is retried and what stays unwritten is reported: every
\* chunk preprocess_file returns as processed is in the vector index.
C17_NoChunkSilentlyDropped ==
    request.pc \in {"retrieve", "refine", "done"} =>
        \A k \in 1..Len(request.processed_chunks) :
            \E j \in 1..Len(pinecone_index) :
                /\ pinecone_index[j].id = VectorId(request.file, k - 1)
                /\ pinecone_index[j].text = request.processed_chunks[k]

\* what refine_answer_with_grok returns when the chat-completion call failed
FailureTexts == {refine_answer_with_grok(o) : o \in ApiOutcomes \ {"ok"}}

\* C19: a failed chat-completion call ends the request in a failure that is
\* told apart from an answer: its text is never the 'response' of a
\* successful (status 200) reply.
C19_FailureIsError ==
    (request.pc = "done" /\ request.response \in FailureTexts) =>
        (request.status # 200 /\ "response" \notin request.keys)

\* C20: when the vector query fails and the graph query returns matches, the
\* request is answered, its contexts are the graph results, and the response
\* is flagged as degraded.
C20_DegradedRetrieval ==
    (/\ request.pc = "done"
     /\ request.search_failed
     /\ request.graph_contexts # <<>>) =>
        /\ request.status = 200
        /\ request.contexts # <<>>
        /\ SetOf(request.contexts) = SetOf(request.graph_contexts)
        /\ "degraded" \in request.keys
\* C18: the graph holds at most one Repository node per repository name and
\* one File node per path, however often the knowledge graph is built.
C18_NaturalKeyNodes ==
    \A i, j \in 1..Len(kg_nodes) :
        (/\ kg_nodes[i].label \in {"Repository", "File"}
         /\ kg_nodes[i].label = kg_nodes[j].label
         /\ kg_nodes[i].key = kg_nodes[j].key) => i = j
\* C21: when the embedding of a chunk fails during index_entire_repo, the run
\* fails: nothing is persisted by save_index and the request does not report
\* success.
C21_NoPartialReady ==
    (repo_call.op = "index" /\ repo_call.embed_failed) =>
        (~repo_call.persisted /\ repo_call.status # 200)

\* C22: with two concurrent index_entire_repo requests for one (owner, repo,
\* branch), the persisted index file and its metadata sidecar come from the
\* same run, and entry i of the metadata describes vector i of the index.
C22_FilesOfOneRun ==
    (index_files.faiss.exists /\ index_files.metadata.exists) =>
        /\ index_files.faiss.run = index_files.metadata.run
        /\ index_files.faiss.data = ChunksEmbedded(index_files.metadata.data)

\* C23: with two concurrent embed_documents calls on one instance, the model
\* the instance reports for a call that returned is the model that produced
\* the call's vectors, and so is the dimension it reports.
C23_ReportedIsUsed ==
    \A p \in EmbedThreads :
        (embed_calls[p].pc = "done" /\ ~embed_calls[p].raised) =>
            /\ embed_calls[p].reported = embed_calls[p].used
            /\ embed_calls[p].dimension = ModelDimension(embed_calls[p].used)

\* the models of a list of attempts
AttemptModels(attempts) == [k \in 1..Len(attempts) |-> attempts[k].model]

\* C28: during one embed_documents call no model is attempted twice, so the
\* model that failed first is not attempted again, and at most
\* len(fallback_chain) attempts are made.
C28_NoRepeatedAttempt ==
    /\ NoRepeat(AttemptModels(embed.attempts))
    /\ Len(embed.attempts) <= Len(FallbackChain)

\* C24: a preprocess_file call whose embedding generation fails leaves the
\* vector index and the graph as they were and returns no chunks.
C24_EmbedFailureFrame ==
    [][(request.pc = "idle" /\ request'.pc # "idle" /\ request'.embed_failed) =>
          /\ pinecone_index' = pinecone_index
          /\ neo4j_graph' = neo4j_graph
          /\ request'.processed_chunks = <<>>]_vars

\* a failed embedding for a file whose chunks the stores already held
C24_Witness ==
    /\ request.pc = "done"
    /\ request.embed_failed
    /\ request.was_indexed
    /\ pinecone_index # <<>>

\* the calls of a chat_single_file run, in the order of the view
StageOrder == <<"preprocess_file", "retrieve_relevant_context", "refine_answer_with_grok">>

\* C25: the stages of a chat_single_file run are called in order, each after
\* the one before it has returned, and a run whose preprocess_file returned no
\* chunks calls neither retrieval nor generation.
C25_StagesInOrder ==
    /\ Len(request.stages) <= Len(StageOrder)
    /\ request.stages = Take(StageOrder, Len(request.stages))
    /\ (request.pc # "idle" /\ request.processed_chunks = <<>>) =>
          request.stages = <<"preprocess_file">>
    /\ request.pc = "retrieve" => request.stages = <<"preprocess_file">>
    /\ request.pc = "refine" => request.stages = Take(StageOrder, 2)

\* a run that went through the three stages
C25_Witness ==
    /\ request.pc = "done"
    /\ request.stages = StageOrder
    /\ request.processed_chunks # <<>>

\* one of the two chat views of views.py has answered
RepoChatCall == repo_call.op \in {"chat", "chat_file"} /\ repo_call.pc = "done"

\* chat_entire_repo answered 'Repository not indexed' before retrieval
RejectedEarlier == repo_call.op = "chat" /\ repo_call.status = 400

\* C26: a chat request sends exactly one request to the chat-completion API,
\* also when that request fails, and none when it is rejected before.
C26_OnePostPerQuery ==
    RepoChatCall => repo_call.posts = (IF RejectedEarlier THEN 0 ELSE 1)

\* a chat_entire_repo run whose one request to the API failed
C26_Witness ==
    /\ repo_call.op = "chat"
    /\ repo_call.status = 500
    /\ repo_call.posts = 1

\* C26 for GitHubChatRAG.refine_answer_with_grok (specification Spec): one
\* request per run that reaches the refinement, none in the other runs.
RefinePostsOnce ==
    request.posts = (IF InList("refine_answer_with_grok", request.stages)
                     THEN 1 ELSE 0)

\* the turns of the window, newest last
HistoryWindow == 5

\* C27: the prompt holds the lines of the last min(5, n) turns of the supplied
\* history, in their order, and no line of an earlier turn.
C27_HistoryBounded ==
    (RepoChatCall /\ repo_call.posts > 0) =>
        LET h == repo_call.chat_context
            p == repo_call.chat_history
        IN  /\ Len(p) = Min(HistoryWindow, Len(h))
            /\ \A k \in 1..Len(p) : p[k] = HistoryLine(h[Len(h) - Len(p) + k])

\* a chat with more than five turns of history
C27_Witness ==
    /\ RepoChatCall
    /\ repo_call.posts > 0
    /\ Len(repo_call.chat_context) > HistoryWindow
    /\ repo_call.chat_history # <<>>

\* the metadata entries the contexts were read from
ContextEntries == [k \in 1..Len(repo_call.contexts) |-> repo_call.contexts[k].index]

\* C29: retrieval returns at most min(top_k, N) contexts for an index of N
\* chunks, and no chunk twice, also when N < top_k.
C29_AtMostNContexts ==
    repo_call.op \in {"chat", "chat_file"} =>
        /\ Len(repo_call.contexts) <= Min(RepoTopK, repo_call.ntotal)
        /\ NoRepeat(ContextEntries)

\* the requests a client made within the window that ends now, the one being
\* dispatched included
MadeInWindow(ip) ==
    Cardinality({k \in 1..Len(rate_made[ip]) :
                    rate_clock - rate_made[ip][k] < RateWindow})

\* C30: a non-health request is rejected with 429 exactly when its client has
\* made more than the limit of requests within the window before it.
C30_RejectedIffOverLimit ==
    (rate_call.path = "/chat" /\ rate_call.time = rate_clock) =>
        (rate_call.status = 429 <=> MadeInWindow(rate_call.client_ip) > RateLimit)

====
